---------------------------- MODULE Spec2Model ----------------------------
(***************************************************************************)
(* Model of the RSS article collector: the URL canonicalizer, the two      *)
(* article repositories (CsvRepo in csv_rss_collector.py, Repo in          *)
(* rss_collector.py) and the feed-to-article ingestion loop.               *)
(*                                                                         *)
(* Python strings are sequences of one-character strings, so that          *)
(* split/rstrip and the CSV round trip act on characters.                  *)
(***************************************************************************)
EXTENDS Naturals, Sequences, FiniteSets

VARIABLES
    base,        \* canonicalizer run: the URL without decoration
    url,         \* canonicalizer run: the raw URL handed to canonicalize_url
    canonBase,   \* canonicalize_url(base), once computed
    canonUrl,    \* canonicalize_url(url), once computed
    cpc,         \* canonicalizer run: "input" | "done"
    backend,     \* "csv" (csv_rss_collector.CsvRepo) | "sql" (rss_collector.Repo)
    articles,    \* the article store: the data lines of articles.csv, or the rows of the articles table
    calls,       \* sequential caller: the insert_article calls made so far, each with its result
    wk,          \* concurrent callers: each worker's position in insert_article and its locals
    active,      \* feeds table: the active flag of each feed
    doc,         \* what each feed URL serves: its entries, the same in every run
    run,         \* pipeline: the number of the current run
    ppc,         \* pipeline: "off" | "feed" | "entry" | "insert" | "done"
    rows,        \* run_once: the rows list_active_feeds returned
    fi,          \* run_once: index in rows of the feed being processed
    ei,          \* fetch_and_process_feed: index of the entry being processed
    feedState,   \* per feed, this run: "pending" | "non200" | "neterror" | "aborted" | "ok"
    outcome,     \* per feed and entry, this run: "-" | "dropped" | "fetchfail" | "saved" | "duplicate" | "persist_error"
    pageFetches, \* this run: article page requests sent
    insertCalls, \* this run: insert_article calls made
    raised,      \* an exception left run_once
    startStore,  \* the article store when this run started
    firstClean,  \* the first run met no fetch failure and no persistence error
    hmax,        \* hash run: the configured MAX_BODY_CHARS
    hin,         \* hash run: two insert_article inputs, each a url and a body
    hrow,        \* hash run: the row each input gives in a repository of its own
    hpc,         \* hash run: "input" | "done"
    strat,       \* entry run: what each extraction strategy finds in the page
    entry,       \* entry run: the feed entry's raw summary and title
    emax,        \* entry run: the configured MAX_BODY_CHARS
    extracted,   \* entry run: what extract_body returned
    passed,      \* entry run: the body handed to insert_article
    erow,        \* entry run: body and hash of the row insert_article created
    eret,        \* entry run: what insert_article returned
    elog,        \* entry run: the line the pipeline logged for the entry
    epc,         \* entry run: "extract" | "insert" | "done"
    now,         \* poll run: the clock, in seconds
    tpc,         \* poll run: "idle" | "poll" | "entries" | "done"
    tfi,         \* poll run: index of the feed being processed
    tleft,       \* poll run: hosts of the entries still to fetch for this feed
    reqs,        \* poll run: the HTTP requests sent so far, host and time
    feedsTable,  \* poll run: the Feed rows of the repository
    polls,       \* poll run: the poll attempts made so far, feed and time
    site         \* poll run: the host of each feed and of each of its entries

cvars == <<base, url, canonBase, canonUrl, cpc>>
rvars == <<backend, articles>>

pvars == <<active, doc, run, ppc, rows, fi, ei, feedState, outcome,
           pageFetches, insertCalls, raised, startStore, firstClean>>

hvars == <<hmax, hin, hrow, hpc>>
evars == <<strat, entry, emax, extracted, passed, erow, eret, elog, epc>>
tvars == <<now, tpc, tfi, tleft, reqs, feedsTable, polls, site>>
nvars == <<hvars, evars, tvars>>

vars == <<cvars, rvars, calls, wk, pvars, nvars>>

(***************************************************************************)
(* Bounds                                                                  *)
(***************************************************************************)
MaxBaseLen == 2
MaxTailLen == 1
MaxCalls == 3
NumWorkers == 2
MaxEntries == 3

(***************************************************************************)
(* The pipeline variables while no pipeline runs                           *)
(***************************************************************************)
PipelineOff ==
    /\ active = <<>>
    /\ doc = <<>>
    /\ run = 0
    /\ ppc = "off"
    /\ rows = <<>>
    /\ fi = 0
    /\ ei = 0
    /\ feedState = <<>>
    /\ outcome = <<>>
    /\ pageFetches = 0
    /\ insertCalls = 0
    /\ raised = FALSE
    /\ startStore = <<>>
    /\ firstClean = FALSE

(***************************************************************************)
(* The variables of the hash run while no hash run is made                 *)
(***************************************************************************)
HashOff ==
    /\ hmax = 0
    /\ hin = <<>>
    /\ hrow = <<>>
    /\ hpc = "off"

(***************************************************************************)
(* The variables of the entry run while no entry run is made               *)
(***************************************************************************)
EntryOff ==
    /\ strat = <<>>
    /\ entry = <<>>
    /\ emax = 0
    /\ extracted = <<>>
    /\ passed = <<>>
    /\ erow = <<>>
    /\ eret = 0
    /\ elog = ""
    /\ epc = "off"

(***************************************************************************)
(* The variables of the poll run while no poll run is made                 *)
(***************************************************************************)
PollOff ==
    /\ now = 0
    /\ tpc = "off"
    /\ tfi = 0
    /\ tleft = <<>>
    /\ reqs = <<>>
    /\ feedsTable = <<>>
    /\ polls = <<>>
    /\ site = <<>>

OthersOff == HashOff /\ EntryOff /\ PollOff

(***************************************************************************)
(* Strings                                                                 *)
(***************************************************************************)
PathChars == {"a", "A", "/"}
Chars == PathChars \cup {"?", "#"}

StringsUpTo(S, n) == UNION {[1..k -> S] : k \in 0..n}

MinOf(S) == CHOOSE x \in S : \A y \in S : x <= y
MaxOf(S) == CHOOSE x \in S : \A y \in S : x >= y

\* s.split(c, 1)[0]: the part of s before the first occurrence of c
SplitFirst(s, c) ==
    LET at == {k \in 1..Len(s) : s[k] = c}
    IN  IF at = {} THEN s ELSE SubSeq(s, 1, MinOf(at) - 1)

\* s.rstrip(c): s without any of its trailing c characters
RStrip(s, c) ==
    LET keep == {k \in 1..Len(s) : s[k] # c}
    IN  IF keep = {} THEN <<>> ELSE SubSeq(s, 1, MaxOf(keep))

\* a variant that removes one trailing c only
RStripOne(s, c) ==
    IF Len(s) > 0 /\ s[Len(s)] = c THEN SubSeq(s, 1, Len(s) - 1) ELSE s

\* canonicalize_url with the trailing slash stripped before the query is cut
canonicalize_url_strip_first(u) ==
    SplitFirst(SplitFirst(RStrip(u, "/"), "#"), "?")

\* canonicalize_url with a single trailing slash stripped
canonicalize_url_single(u) ==
    RStripOne(SplitFirst(SplitFirst(u, "#"), "?"), "/")

\* url.split("#", 1)[0].split("?", 1)[0].rstrip("/")
canonicalize_url(u) ==
    RStrip(SplitFirst(SplitFirst(u, "#"), "?"), "/")

(***************************************************************************)
(* Canonicalizer run: one call of canonicalize_url on a raw URL and on the *)
(* undecorated URL it was built from.                                      *)
(***************************************************************************)
\* "http://a.com/x", "http://a.com/x?y=1#z", "http://a.com/x/"
ExBase == <<"h","t","t","p",":","/","/","a",".","c","o","m","/","x">>
ExQueryFrag == ExBase \o <<"?","y","=","1","#","z">>
ExSlash == ExBase \o <<"/">>

\* nothing, or a query string and/or fragment: "?..." or "#..."
Tails == {<<>>} \cup {<<sep>> \o t : sep \in {"?", "#"}, t \in StringsUpTo(Chars, MaxTailLen)}

\* raw URLs that differ from b only by a trailing slash, a query string and/or a fragment
Decorated(b) == {b \o s \o t : s \in {<<>>, <<"/">>}, t \in Tails}

InitCanon ==
    /\ \/ /\ base \in StringsUpTo(PathChars, MaxBaseLen)
          /\ url \in Decorated(base)
       \/ /\ base = ExBase
          /\ url \in {ExQueryFrag, ExSlash}
    /\ canonBase = <<"-">>
    /\ canonUrl = <<"-">>
    /\ cpc = "input"
    /\ backend = "csv"
    /\ articles = <<>>
    /\ calls = <<>>
    /\ wk = <<>>
    /\ PipelineOff
    /\ OthersOff

Canonicalize ==
    /\ cpc = "input"
    /\ canonBase' = canonicalize_url(base)
    /\ canonUrl' = canonicalize_url(url)
    /\ cpc' = "done"
    /\ UNCHANGED <<nvars, base, url, rvars, calls, wk, pvars>>

NextCanon == Canonicalize

SpecCanon == InitCanon /\ [][NextCanon]_vars


(***************************************************************************)
(* Claims about canonicalize_url (checked under SpecCanon)                 *)
(***************************************************************************)
Seps == {"?", "#"}

NoSep(s) == \A k \in 1..Len(s) : s[k] \notin Seps

\* r is empty or starts a query string or a fragment
IsQueryOrFragment(u, m) == m = Len(u) \/ u[m + 1] \in Seps

\* C9: two raw URLs that differ only by query string, fragment and/or a
\* trailing slash get the same canonical_url: every decorated form of a URL
\* canonicalizes to what the undecorated URL canonicalizes to, and
\* "http://a.com/x?y=1#z" and "http://a.com/x/" both give "http://a.com/x".
C9_SameCanonical ==
    cpc = "done" =>
        /\ canonUrl = canonBase
        /\ (base = ExBase => canonUrl = ExBase /\ canonBase = ExBase)

C9_Witness ==
    /\ cpc = "done"
    /\ url = ExQueryFrag
    /\ canonUrl = ExBase

\* C10 as stated: the result is the input cut at the first '#' or '?', with
\* one trailing '/' removed if the cut ends in one, and nothing else changed.
C10_SingleSlashOriginal ==
    cpc = "done" =>
        \E k \in 0..Len(url) :
            /\ canonUrl = SubSeq(url, 1, k)
            /\ NoSep(canonUrl)
            /\ \/ /\ IsQueryOrFragment(url, k)
                  /\ (k = 0 \/ url[k] # "/")
               \/ /\ k < Len(url)
                  /\ url[k + 1] = "/"
                  /\ IsQueryOrFragment(url, k + 1)

\* C10 (amended): the result is the input cut at the first '#' or '?', with
\* every trailing '/' of the cut removed; the characters that remain are
\* exactly the leading characters of the input (no decoding, no case-folding).
C10_AllSlashes ==
    cpc = "done" =>
        \E k \in 0..Len(url) :
            /\ canonUrl = SubSeq(url, 1, k)
            /\ NoSep(canonUrl)
            /\ (k = 0 \/ url[k] # "/")
            /\ \E m \in k..Len(url) :
                  /\ \A j \in (k + 1)..m : url[j] = "/"
                  /\ IsQueryOrFragment(url, m)

C10_Witness ==
    /\ cpc = "done"
    /\ Len(url) >= Len(canonUrl) + 3
    /\ url[Len(canonUrl) + 1] = "/"
    /\ url[Len(canonUrl) + 2] = "/"
    /\ url[Len(canonUrl) + 3] \in Seps
    /\ \E k \in 1..Len(canonUrl) : canonUrl[k] = "A"


(***************************************************************************)
(* The article repositories                                                *)
(*                                                                         *)
(* A stored row keeps the columns the dedup contract reads: id, feed_id,   *)
(* url and canonical_url.  CsvRepo keeps the rows in articles.csv and      *)
(* re-reads the whole file with pandas on every call; Repo keeps them in   *)
(* the articles table under UniqueConstraint("canonical_url").             *)
(***************************************************************************)
Backends == {"csv", "sql"}
FeedIds == {1, 2}

\* the duplicate signal: insert_article returns None
None == 0

\* raw URLs handed to insert_article: "a", "a/", "a?a" (one canonical_url, "a"),
\* "A" (another), "/" and "#a" (both canonicalize to the empty string)
UrlA == <<"a">>
UrlASlash == <<"a", "/">>
UrlAQuery == <<"a", "?", "a">>
UrlUpper == <<"A">>
UrlSlash == <<"/">>
UrlFragment == <<"#", "a">>
PlainUrls == {UrlA, UrlASlash, UrlAQuery, UrlUpper}
Urls == PlainUrls \cup {UrlSlash, UrlFragment}

\* what pandas holds for a missing value; equal to no string
NaN == <<"NaN">>

\* pandas.read_csv's default missing-value markers among the strings of the
\* model ('' and 'NA'; the full default list also has 'NULL', 'nan', 'N/A', ...)
NaValues == {<<>>, <<"N", "A">>}

\* pandas.read_csv on one text field: a field that is a missing-value marker
\* (quoted or not) is read as NaN, every other string as itself
ParseField(s) == IF s \in NaValues THEN NaN ELSE s

\* DataFrame.to_csv on one text field: NaN is written as the empty string
FormatField(v) == IF v = NaN THEN <<>> ELSE v

\* pd.read_csv(ARTICLES_CSV): the DataFrame of the file's data lines
ReadCsv(file) ==
    [k \in 1..Len(file) |->
        [file[k] EXCEPT !.url = ParseField(@), !.canonical_url = ParseField(@)]]

\* df.to_csv(ARTICLES_CSV, ...): the data lines written for a DataFrame
ToCsv(df) ==
    [k \in 1..Len(df) |->
        [df[k] EXCEPT !.url = FormatField(@), !.canonical_url = FormatField(@)]]

\* CsvRepo._next_id: 1 for an empty file, else the largest id plus one
_next_id(df) ==
    IF Len(df) = 0 THEN 1 ELSE MaxOf({df[k].id : k \in 1..Len(df)}) + 1

\* canonical in df["canonical_url"].values
InColumn(df, canonical) == \E k \in 1..Len(df) : df[k].canonical_url = canonical

NewRow(id, feed_id, u) ==
    [id |-> id, feed_id |-> feed_id, url |-> u, canonical_url |-> canonicalize_url(u)]

\* CsvRepo.insert_article run without interruption
CsvInsertArticle(file, feed_id, u) ==
    LET canonical == canonicalize_url(u)
        df == ReadCsv(file)
    IN  IF InColumn(df, canonical)
        THEN [ret |-> None, store |-> file]
        ELSE LET new_id == _next_id(ReadCsv(file))
             IN  [ret |-> new_id,
                  store |-> ToCsv(Append(df, NewRow(new_id, feed_id, u)))]

\* the uniqueness constraint uix_canonical: the INSERT raises IntegrityError
UniqueViolation(table, canonical) ==
    \E k \in 1..Len(table) : table[k].canonical_url = canonical

\* Repo.insert_article: one INSERT in its own transaction; IntegrityError
\* gives None, else the id the database assigned
SqlInsertArticle(table, feed_id, u) ==
    LET canonical == canonicalize_url(u)
    IN  IF UniqueViolation(table, canonical)
        THEN [ret |-> None, store |-> table]
        ELSE [ret |-> Len(table) + 1,
              store |-> Append(table, NewRow(Len(table) + 1, feed_id, u))]

insert_article(b, store, feed_id, u) ==
    IF b = "csv" THEN CsvInsertArticle(store, feed_id, u)
                 ELSE SqlInsertArticle(store, feed_id, u)

\* the rows of the store that hold canonical_url c
RowsFor(store, c) == {k \in 1..Len(store) : store[k].canonical_url = c}

Ids(store) == {store[k].id : k \in 1..Len(store)}

CanonIdle ==
    /\ base = <<>>
    /\ url = <<>>
    /\ canonBase = <<"-">>
    /\ canonUrl = <<"-">>
    /\ cpc = "off"

(***************************************************************************)
(* One caller making insert_article calls one after the other              *)
(***************************************************************************)
InitInsert ==
    /\ CanonIdle
    /\ backend \in Backends
    /\ articles = <<>>
    /\ calls = <<>>
    /\ wk = <<>>
    /\ PipelineOff
    /\ OthersOff

InsertCall(feed_id, u) ==
    /\ Len(calls) < MaxCalls
    /\ LET r == insert_article(backend, articles, feed_id, u)
       IN  /\ articles' = r.store
           /\ calls' = Append(calls, [url |-> u, ret |-> r.ret,
                                      before |-> articles, after |-> r.store])
    /\ UNCHANGED <<nvars, cvars, backend, wk, pvars>>

NextInsert == \E feed_id \in FeedIds, u \in Urls : InsertCall(feed_id, u)

SpecInsert == InitInsert /\ [][NextInsert]_vars


(***************************************************************************)
(* Claims about sequential insert_article calls (checked under SpecInsert) *)
(***************************************************************************)
OnePerCanonical(store) ==
    \A i, j \in 1..Len(store) :
        store[i].canonical_url = store[j].canonical_url => i = j

\* C1: after any sequence of insert_article calls, in the CSV repository and
\* in the SQL repository, the article store holds at most one Article for
\* each canonical_url.
C1_AtMostOnePerCanonical == OnePerCanonical(articles)

\* the part of C1 the relational repository keeps
C1_SqlAtMostOnePerCanonical == backend = "sql" => OnePerCanonical(articles)

\* the part of C1 the CSV repository keeps: URLs whose canonical_url is not
\* a missing-value marker of read_csv
C1_CsvAtMostOneReadable ==
    \A i, j \in 1..Len(articles) :
        /\ articles[i].canonical_url = articles[j].canonical_url
        /\ articles[i].canonical_url \notin NaValues
        => i = j

\* two calls in a row whose URLs canonicalize to the same value, the first
\* made when the store holds no Article for it
SamePair(k) ==
    /\ k + 1 <= Len(calls)
    /\ canonicalize_url(calls[k].url) = canonicalize_url(calls[k + 1].url)
    /\ RowsFor(calls[k].before, canonicalize_url(calls[k].url)) = {}

\* C3: of two insert_article calls in sequence with raw URLs that
\* canonicalize to the same value, the first returns a new id, the second
\* returns None and writes nothing: the store after the second call equals
\* the store after the first and holds exactly one row for that canonical_url.
C3_SecondCallIsDuplicate ==
    \A k \in 1..Len(calls) :
        SamePair(k) =>
            /\ calls[k].ret # None
            /\ calls[k].ret \notin Ids(calls[k].before)
            /\ calls[k + 1].ret = None
            /\ calls[k + 1].after = calls[k].after
            /\ Cardinality(RowsFor(calls[k + 1].after, canonicalize_url(calls[k].url))) = 1

\* the part of C3 the relational repository keeps
C3_SqlSecondCallIsDuplicate == backend = "sql" => C3_SecondCallIsDuplicate


(***************************************************************************)
(* Workers calling insert_article concurrently, one call each.  A CsvRepo  *)
(* call is four steps on the shared file (read, membership test, _next_id, *)
(* rewrite); a Repo call is one INSERT, which the database runs atomically *)
(* against the uniqueness constraint.  The URLs are those whose            *)
(* canonical_url read_csv returns unchanged, so that what the              *)
(* interleavings add is seen on its own.                                   *)
(***************************************************************************)
Workers == 1..NumWorkers

IdleWorker ==
    [pc |-> "idle", feed_id |-> 1, url |-> <<>>, canonical |-> <<>>,
     df |-> <<>>, new_id |-> None, ret |-> None]

InitWorkers ==
    /\ CanonIdle
    /\ backend \in Backends
    /\ articles = <<>>
    /\ calls = <<>>
    /\ wk = [w \in Workers |-> IdleWorker]
    /\ PipelineOff
    /\ OthersOff

\* insert_article is entered: canonical = canonicalize_url(url)
Call(w, feed_id, u) ==
    /\ wk[w].pc = "idle"
    /\ wk' = [wk EXCEPT ![w] = [@ EXCEPT !.pc = IF backend = "csv" THEN "read" ELSE "insert",
                                         !.feed_id = feed_id,
                                         !.url = u,
                                         !.canonical = canonicalize_url(u)]]
    /\ UNCHANGED <<nvars, cvars, rvars, calls, pvars>>

\* df = pd.read_csv(ARTICLES_CSV)
CsvRead(w) ==
    /\ wk[w].pc = "read"
    /\ wk' = [wk EXCEPT ![w] = [@ EXCEPT !.pc = "check", !.df = ReadCsv(articles)]]
    /\ UNCHANGED <<nvars, cvars, rvars, calls, pvars>>

\* if canonical in df["canonical_url"].values: return None
CsvCheck(w) ==
    /\ wk[w].pc = "check"
    /\ wk' = [wk EXCEPT ![w] =
                IF InColumn(@.df, @.canonical)
                THEN [@ EXCEPT !.pc = "done", !.ret = None]
                ELSE [@ EXCEPT !.pc = "next_id"]]
    /\ UNCHANGED <<nvars, cvars, rvars, calls, pvars>>

\* new_id = self._next_id(ARTICLES_CSV), which reads the file again
CsvNextId(w) ==
    /\ wk[w].pc = "next_id"
    /\ wk' = [wk EXCEPT ![w] = [@ EXCEPT !.pc = "write", !.new_id = _next_id(ReadCsv(articles))]]
    /\ UNCHANGED <<nvars, cvars, rvars, calls, pvars>>

\* df = pd.concat([df, new_row]); df.to_csv(ARTICLES_CSV); return new_id
CsvWrite(w) ==
    /\ wk[w].pc = "write"
    /\ articles' = ToCsv(Append(wk[w].df, NewRow(wk[w].new_id, wk[w].feed_id, wk[w].url)))
    /\ wk' = [wk EXCEPT ![w] = [@ EXCEPT !.pc = "done", !.ret = wk[w].new_id]]
    /\ UNCHANGED <<nvars, cvars, backend, calls, pvars>>

\* with engine.begin(): conn.execute(articles_table.insert()...), IntegrityError -> None
SqlInsert(w) ==
    /\ wk[w].pc = "insert"
    /\ LET r == SqlInsertArticle(articles, wk[w].feed_id, wk[w].url)
       IN  /\ articles' = r.store
           /\ wk' = [wk EXCEPT ![w] = [@ EXCEPT !.pc = "done", !.ret = r.ret]]
    /\ UNCHANGED <<nvars, cvars, backend, calls, pvars>>

NextWorkers ==
    \E w \in Workers :
        \/ \E feed_id \in FeedIds, u \in PlainUrls : Call(w, feed_id, u)
        \/ CsvRead(w)
        \/ CsvCheck(w)
        \/ CsvNextId(w)
        \/ CsvWrite(w)
        \/ SqlInsert(w)

SpecWorkers == InitWorkers /\ [][NextWorkers]_vars

(***************************************************************************)
(* Claims about concurrent insert_article calls (checked under SpecWorkers)*)
(***************************************************************************)
Callers(c) == {w \in Workers : wk[w].pc # "idle" /\ wk[w].canonical = c}
Returned(c) == {w \in Callers(c) : wk[w].pc = "done"}
Created(c) == {w \in Returned(c) : wk[w].ret # None}

ExactlyOneCreates ==
    \A u \in PlainUrls :
        LET c == canonicalize_url(u)
        IN  /\ Cardinality(Created(c)) <= 1
            /\ (Callers(c) # {} /\ Returned(c) = Callers(c)) =>
                  /\ Cardinality(Created(c)) = 1
                  /\ \A w \in Created(c) :
                        \E k \in RowsFor(articles, c) : articles[k].id = wk[w].ret

\* C2: when workers call insert_article concurrently with URLs of the same
\* canonical_url, under every interleaving exactly one caller gets a new id
\* and creates the row and every other caller gets None, in the file-based
\* repository as in the relational one.
C2_ExactlyOneCreates == ExactlyOneCreates

\* the part of C2 the relational repository keeps
C2_SqlExactlyOneCreates == backend = "sql" => ExactlyOneCreates


(***************************************************************************)
(* The ingestion pipeline: run_once (rss_collector.main) / the feed loop   *)
(* of csv_rss_collector.main, and fetch_and_process_feed.                  *)
(*                                                                         *)
(* The network is the environment: a feed fetch answers 200, answers       *)
(* another status or raises; an article page fetch answers or raises; a    *)
(* repository call may raise a storage error.  What a feed URL serves does *)
(* not change between runs.                                                *)
(***************************************************************************)
Feeds == {1, 2}

\* args.limit of csv_rss_collector.main (--limit, default 10); rss_collector has none
DefaultLimit == 10

\* feed entries: link and id as feedparser gives them, <<>> when absent
EntryLink == [link |-> UrlA, id |-> <<>>]
EntryIdOnly == [link |-> <<>>, id |-> UrlASlash]
EntryNeither == [link |-> <<>>, id |-> <<>>]
EntryLinkAndId == [link |-> UrlSlash, id |-> UrlUpper]
EntryKinds == {EntryLink, EntryIdOnly, EntryNeither, EntryLinkAndId}

\* the feed documents: at most MaxEntries entries in all feeds together
FeedDocs ==
    {d \in [Feeds -> StringsUpTo(EntryKinds, MaxEntries)] :
        Len(d[1]) + Len(d[2]) <= MaxEntries}

\* an entry's link alone
LinkOnly(e) == e.link

\* link = e.get("link") or e.get("id")
ResolveLink(e) == IF e.link # <<>> THEN e.link ELSE e.id

\* repo.list_active_feeds(): the active feeds, in id order
list_active_feeds == SelectSeq(<<1, 2>>, LAMBDA f : active[f])

\* if limit and i >= limit: break   (i counts from 0; CSV collector only)
LimitReached(i) == backend = "csv" /\ DefaultLimit # 0 /\ i - 1 >= DefaultLimit

CurFeed == rows[fi]
CurEntry == doc[CurFeed][ei]

SetOutcome(o) == outcome' = [outcome EXCEPT ![CurFeed][ei] = o]

InitPipeline ==
    /\ CanonIdle
    /\ OthersOff
    /\ calls = <<>>
    /\ wk = <<>>
    /\ backend \in Backends
    /\ articles = <<>>
    /\ active \in [Feeds -> BOOLEAN]
    /\ doc \in FeedDocs
    /\ \A f \in Feeds : ~active[f] => doc[f] = <<>>
    /\ run = 1
    /\ ppc = "start"
    /\ rows = <<>>
    /\ fi = 0
    /\ ei = 0
    /\ feedState = [f \in Feeds |-> "pending"]
    /\ outcome = [f \in Feeds |-> [k \in 1..Len(doc[f]) |-> "-"]]
    /\ pageFetches = 0
    /\ insertCalls = 0
    /\ raised = FALSE
    /\ startStore = <<>>
    /\ firstClean = FALSE

\* rows = repo.list_active_feeds()
StartRun ==
    /\ ppc = "start"
    /\ rows' = list_active_feeds
    /\ fi' = 1
    /\ ppc' = "feed"
    /\ startStore' = articles
    /\ UNCHANGED <<nvars, cvars, rvars, calls, wk, active, doc, run, ei, feedState, outcome,
                   pageFetches, insertCalls, raised, firstClean>>

\* an exception leaves fetch_and_process_feed and nothing catches it
FeedErrorEscapes(state) ==
    /\ feedState' = [feedState EXCEPT ![CurFeed] = state]
    /\ raised' = TRUE
    /\ ppc' = "done"
    /\ UNCHANGED fi

\* try: fetch_and_process_feed(...) except Exception: logger.exception(...)
\* and the loop goes on with the next row
FeedErrorCaught(state) ==
    /\ feedState' = [feedState EXCEPT ![CurFeed] = state]
    /\ fi' = fi + 1
    /\ ppc' = "feed"
    /\ UNCHANGED raised

\* resp = client.get(feed_url): 200, the entries are parsed
FeedFetchOk ==
    /\ ppc = "feed"
    /\ fi <= Len(rows)
    /\ ei' = 1
    /\ ppc' = "entry"
    /\ UNCHANGED <<nvars, cvars, rvars, calls, wk, active, doc, run, rows, fi, feedState, outcome,
                   pageFetches, insertCalls, raised, startStore, firstClean>>

\* a feed fetch whose status is not looked at
FeedFetchNon200Ignored ==
    /\ ppc = "feed"
    /\ fi <= Len(rows)
    /\ feedState' = [feedState EXCEPT ![CurFeed] = "non200"]
    /\ ei' = 1
    /\ ppc' = "entry"
    /\ UNCHANGED <<nvars, cvars, rvars, calls, wk, active, doc, run, rows, fi, outcome,
                   pageFetches, insertCalls, raised, startStore, firstClean>>

\* if resp.status_code != 200: logger.warning(...); return
FeedFetchNon200 ==
    /\ ppc = "feed"
    /\ fi <= Len(rows)
    /\ feedState' = [feedState EXCEPT ![CurFeed] = "non200"]
    /\ fi' = fi + 1
    /\ UNCHANGED <<nvars, cvars, rvars, calls, wk, active, doc, run, ppc, rows, ei, outcome,
                   pageFetches, insertCalls, raised, startStore, firstClean>>

\* client.get(feed_url) raises (network failure, timeout)
FeedFetchRaises ==
    /\ ppc = "feed"
    /\ fi <= Len(rows)
    /\ FeedErrorCaught("neterror")
    /\ UNCHANGED <<nvars, cvars, rvars, calls, wk, active, doc, run, rows, ei, outcome,
                   pageFetches, insertCalls, startStore, firstClean>>

InLoop == ppc = "entry" /\ ei <= Len(doc[CurFeed]) /\ ~LimitReached(ei)

\* if not link: continue
EntryDropped ==
    /\ InLoop
    /\ ResolveLink(CurEntry) = <<>>
    /\ SetOutcome("dropped")
    /\ ei' = ei + 1
    /\ UNCHANGED <<nvars, cvars, rvars, calls, wk, active, doc, run, ppc, rows, fi, feedState,
                   pageFetches, insertCalls, raised, startStore, firstClean>>

\* page = client.get(link) answers; html = page.text; extract_body(html, link)
PageFetchOk ==
    /\ InLoop
    /\ ResolveLink(CurEntry) # <<>>
    /\ pageFetches' = pageFetches + 1
    /\ SetOutcome("fetched")
    /\ ppc' = "insert"
    /\ UNCHANGED <<nvars, cvars, rvars, calls, wk, active, doc, run, rows, fi, ei, feedState,
                   insertCalls, raised, startStore, firstClean>>

\* client.get(link) raises outside any try: the exception ends the feed
PageFetchRaisesUncaught ==
    /\ InLoop
    /\ ResolveLink(CurEntry) # <<>>
    /\ pageFetches' = pageFetches + 1
    /\ SetOutcome("fetchfail")
    /\ FeedErrorCaught("aborted")
    /\ UNCHANGED <<nvars, cvars, rvars, calls, wk, active, doc, run, rows, ei,
                   insertCalls, startStore, firstClean>>

\* try: page = client.get(link) except Exception: logger.warning(...); continue
PageFetchRaises ==
    /\ InLoop
    /\ ResolveLink(CurEntry) # <<>>
    /\ pageFetches' = pageFetches + 1
    /\ SetOutcome("fetchfail")
    /\ ei' = ei + 1
    /\ UNCHANGED <<nvars, cvars, rvars, calls, wk, active, doc, run, ppc, rows, fi, feedState,
                   insertCalls, raised, startStore, firstClean>>

\* article_id = repo.insert_article(feed_id=feed_id, ..., url=link, ...);
\* "Saved article" is logged for an id, "Duplicate skipped" for None
InsertArticle ==
    /\ ppc = "insert"
    /\ LET r == insert_article(backend, articles, CurFeed, ResolveLink(CurEntry))
       IN  /\ articles' = r.store
           /\ SetOutcome(IF r.ret # None THEN "saved" ELSE "duplicate")
    /\ insertCalls' = insertCalls + 1
    /\ ei' = ei + 1
    /\ ppc' = "entry"
    /\ UNCHANGED <<nvars, cvars, backend, calls, wk, active, doc, run, rows, fi, feedState,
                   pageFetches, raised, startStore, firstClean>>

\* repo.insert_article raises something other than IntegrityError (the file
\* cannot be read or written, the database is unreachable): nothing is written
InsertRaises ==
    /\ ppc = "insert"
    /\ insertCalls' = insertCalls + 1
    /\ SetOutcome("persist_error")
    /\ FeedErrorCaught("aborted")
    /\ UNCHANGED <<nvars, cvars, rvars, calls, wk, active, doc, run, rows, ei,
                   pageFetches, startStore, firstClean>>

\* the for loop over the entries ends (or the limit breaks it): the feed is done
FeedDone ==
    /\ ppc = "entry"
    /\ (ei > Len(doc[CurFeed]) \/ LimitReached(ei))
    /\ feedState' = [feedState EXCEPT ![CurFeed] = "ok"]
    /\ fi' = fi + 1
    /\ ppc' = "feed"
    /\ UNCHANGED <<nvars, cvars, rvars, calls, wk, active, doc, run, rows, ei, outcome,
                   pageFetches, insertCalls, raised, startStore, firstClean>>

\* the loop over rows ends; client.close()
RunDone ==
    /\ ppc = "feed"
    /\ fi > Len(rows)
    /\ ppc' = "done"
    /\ UNCHANGED <<nvars, cvars, rvars, calls, wk, active, doc, run, rows, fi, ei, feedState,
                   outcome, pageFetches, insertCalls, raised, startStore, firstClean>>

\* this run met no failed fetch and no storage error
CleanRun ==
    /\ \A j \in 1..Len(rows) : feedState[rows[j]] = "ok"
    /\ \A f \in Feeds : \A k \in 1..Len(outcome[f]) : outcome[f][k] \notin {"fetchfail", "persist_error"}

\* the program is started again on the same store and the same feeds
SecondRun ==
    /\ ppc = "done"
    /\ ~raised
    /\ run = 1
    /\ run' = 2
    /\ firstClean' = CleanRun
    /\ ppc' = "start"
    /\ fi' = 0
    /\ ei' = 0
    /\ rows' = <<>>
    /\ feedState' = [f \in Feeds |-> "pending"]
    /\ outcome' = [f \in Feeds |-> [k \in 1..Len(doc[f]) |-> "-"]]
    /\ pageFetches' = 0
    /\ insertCalls' = 0
    /\ UNCHANGED <<nvars, cvars, rvars, calls, wk, active, doc, raised, startStore>>

Next ==
    \/ StartRun
    \/ FeedFetchOk
    \/ FeedFetchNon200
    \/ FeedFetchRaises
    \/ EntryDropped
    \/ PageFetchOk
    \/ PageFetchRaises
    \/ InsertArticle
    \/ InsertRaises
    \/ FeedDone
    \/ RunDone

Spec == InitPipeline /\ [][Next]_vars

NextTwice == Next \/ SecondRun

SpecTwice == InitPipeline /\ [][NextTwice]_vars


(***************************************************************************)
(* Claims about the pipeline (C5-C8 under Spec, C4 under SpecTwice)        *)
(***************************************************************************)
EntryIds == {<<f, k>> : f \in Feeds, k \in 1..MaxEntries}

\* the entries of this run whose outcome is in S
WithOutcome(S) ==
    {e \in EntryIds : e[2] <= Len(outcome[e[1]]) /\ outcome[e[1]][e[2]] \in S}

Reached == {"fetched", "fetchfail", "saved", "duplicate", "persist_error"}
InsertCalled == {"saved", "duplicate", "persist_error"}

HasLinkOrId(e) == e.link # <<>> \/ e.id # <<>>

\* the rows this run added to the store that came from feed f
AddedBy(f) ==
    {k \in (Len(startStore) + 1)..Len(articles) : articles[k].feed_id = f}

\* the loop over rows has gone past every feed before position fi
EarlierFeedsHandled ==
    \A j \in 1..Len(rows) : (j < fi \/ ppc = "done") => feedState[rows[j]] # "pending"

\* C4: a second run of the full pipeline against unchanged feeds creates no
\* Article: every entry that reaches insert_article gets the duplicate signal
\* and the store stays what it was when the second run started (the first
\* run having met no failed fetch and no storage error).
C4_SecondRunAddsNothing ==
    (run = 2 /\ ppc # "start" /\ firstClean) =>
        /\ articles = startStore
        /\ WithOutcome({"saved"}) = {}

\* the part of C4 the relational repository keeps
C4_SqlSecondRunAddsNothing == backend = "sql" => C4_SecondRunAddsNothing

\* the part of C4 the CSV repository keeps: feeds none of whose links
\* canonicalizes to a missing-value marker of read_csv
C4_CsvReadableSecondRunAddsNothing ==
    (\A f \in Feeds : \A k \in 1..Len(doc[f]) :
        canonicalize_url(ResolveLink(doc[f][k])) \notin NaValues \/ ~HasLinkOrId(doc[f][k]))
    => C4_SecondRunAddsNothing

\* C5: a feed whose fetch returns a non-success status gets no Article in
\* that run and no article page request, and the run goes on to the next
\* active feed with no exception reaching the caller.
C5_Non200FeedSkipped ==
    \A f \in Feeds :
        feedState[f] = "non200" =>
            /\ \A k \in 1..Len(outcome[f]) : outcome[f][k] = "-"
            /\ AddedBy(f) = {}
            /\ ~raised
            /\ \E j \in 1..Len(rows) : rows[j] = f /\ j < fi
            /\ EarlierFeedsHandled

C5_Witness ==
    /\ ppc = "done"
    /\ feedState[1] = "non200"
    /\ Len(doc[1]) > 0
    /\ HasLinkOrId(doc[1][1])
    /\ feedState[2] = "ok"
    /\ \E k \in 1..Len(outcome[2]) : outcome[2][k] = "saved"

\* C6: an error raised while one feed is processed (the feed fetch raises, or
\* insert_article raises a storage error) abandons the remaining entries of
\* that feed only: every later active feed is still processed in the same
\* run, and the run ends without raising.
C6_FeedErrorIsolated ==
    /\ ~raised
    /\ EarlierFeedsHandled
    /\ (ppc = "done" => fi > Len(rows))
    /\ \A f \in Feeds :
        /\ feedState[f] = "neterror" =>
              \A k \in 1..Len(outcome[f]) : outcome[f][k] = "-"
        /\ feedState[f] = "aborted" =>
              \E k \in 1..Len(outcome[f]) :
                  /\ outcome[f][k] = "persist_error"
                  /\ \A j \in (k + 1)..Len(outcome[f]) : outcome[f][j] = "-"
        /\ feedState[f] = "ok" =>
              \A k \in 1..Len(outcome[f]) : outcome[f][k] \notin {"-", "fetched"}

C6_Witness ==
    /\ ppc = "done"
    /\ feedState[1] = "aborted"
    /\ outcome[1] = <<"persist_error", "-">>
    /\ feedState[2] = "ok"
    /\ outcome[2] = <<"saved">>

\* C7: an entry whose article page fetch raises produces no Article
\* (insert_article is not called for it, no row is written), and every other
\* entry of the same feed is still processed in the same run.
C7_PageFetchFailureSkipsEntry ==
    /\ insertCalls = Cardinality(WithOutcome(InsertCalled))
    /\ Len(articles) = Len(startStore) + Cardinality(WithOutcome({"saved"}))
    /\ \A f \in Feeds : \A k \in 1..Len(outcome[f]) :
          (outcome[f][k] = "fetchfail" /\ ppc = "done") =>
              \A j \in 1..Len(outcome[f]) :
                  \/ outcome[f][j] \notin {"-", "fetched"}
                  \/ \E i \in 1..(j - 1) : outcome[f][i] = "persist_error"

C7_Witness ==
    /\ ppc = "done"
    /\ outcome[1] = <<"saved", "fetchfail", "duplicate">>
    /\ Len(articles) = 1

\* C8: a feed entry with neither a link nor an id is dropped: no page fetch
\* and no insert_article call is made for it, every other entry of the feed
\* is still processed, and a feed of 3 entries whose entry 2 has no link and
\* no id yields exactly 2 processed entries.
C8_NoLinkEntryDropped ==
    /\ pageFetches = Cardinality(WithOutcome(Reached))
    /\ \A f \in Feeds : \A k \in 1..Len(outcome[f]) :
          /\ ~HasLinkOrId(doc[f][k]) => outcome[f][k] \in {"-", "dropped"}
          /\ HasLinkOrId(doc[f][k]) => outcome[f][k] # "dropped"
          /\ feedState[f] = "ok" => outcome[f][k] \notin {"-", "fetched"}
    /\ \A f \in Feeds :
          (/\ feedState[f] = "ok"
           /\ Len(doc[f]) = 3
           /\ HasLinkOrId(doc[f][1])
           /\ ~HasLinkOrId(doc[f][2])
           /\ HasLinkOrId(doc[f][3]))
          => Cardinality({k \in 1..3 : outcome[f][k] \in Reached}) = 2

C8_Witness ==
    /\ feedState[1] = "ok"
    /\ doc[1] = <<EntryLink, EntryNeither, EntryIdOnly>>
    /\ outcome[1] = <<"saved", "dropped", "duplicate">>
    /\ pageFetches = 2
    /\ insertCalls = 2

(***************************************************************************)
(* Texts.  A body, summary or title is too long to be a sequence of        *)
(* characters here (the code cuts at 200, 10000 and 120000 characters), so *)
(* a text is a sequence of runs: n repetitions of one kind of character.   *)
(* Kinds "a" and "b" are two ordinary characters, "s" is whitespace; the   *)
(* kinds "by", "em" and "mk" stand for a whole match of the byline, email  *)
(* and boilerplate-marker patterns of the cleanup passes.  Adjacent runs   *)
(* of a text have different kinds, so equal strings are equal texts.       *)
(***************************************************************************)
Run(k, n) == [k |-> k, n |-> n]

\* Python's None where a text is expected (distinct from the empty text)
NoneText == <<Run("None", 0)>>

\* truth value of a str-or-None in Python: None and "" are falsy
Truthy(t) == t # NoneText /\ t # <<>>

RECURSIVE Norm(_)
Norm(t) ==
    IF t = <<>> THEN <<>>
    ELSE LET h == Head(t)
             r == Norm(Tail(t))
         IN  IF h.n = 0 THEN r
             ELSE IF r # <<>> /\ r[1].k = h.k
                  THEN <<Run(h.k, h.n + r[1].n)>> \o Tail(r)
                  ELSE <<h>> \o r

\* len(t)
RECURSIVE TLen(_)
TLen(t) == IF t = <<>> THEN 0 ELSE Head(t).n + TLen(Tail(t))

\* t[:m]
RECURSIVE TPrefix(_, _)
TPrefix(t, m) ==
    IF t = <<>> \/ m = 0 THEN <<>>
    ELSE IF Head(t).n >= m THEN <<Run(Head(t).k, m)>>
    ELSE <<Head(t)>> \o TPrefix(Tail(t), m - Head(t).n)

\* a url of the model (a sequence of characters) as a text
ToText(s) == Norm([i \in 1..Len(s) |-> Run(s[i], 1)])

\* all texts of at most n runs over the kinds K with run lengths L
RECURSIVE TextsUpTo(_, _, _)
TextsUpTo(K, L, n) ==
    IF n = 0 THEN {<<>>}
    ELSE LET shorter == TextsUpTo(K, L, n - 1)
         IN  shorter \cup
             UNION {{<<Run(k, l)>> \o t :
                        l \in L, t \in {x \in shorter : x = <<>> \/ x[1].k # k}} :
                    k \in K}

(***************************************************************************)
(* What insert_article derives from its url and body arguments             *)
(***************************************************************************)
HashPrefixLen == 200
CsvMaxBodyChars == 10000
DefaultMaxBodyChars == 120000

\* f"{canonical}|{body[:200] if body else ''}"
content_key(canonical, body) ==
    Norm(ToText(canonical) \o <<Run("|", 1)>>
         \o (IF Truthy(body) THEN TPrefix(body, HashPrefixLen) ELSE <<>>))

\* SHA-256 of the UTF-8 bytes, taken to be free of collisions; every
\* character of the model's texts is encodable, so encode() drops none
sha256_hexd(s) == [sha256 |-> s]

\* variant of Truncate that keeps one character more
TruncateOneMore(body, max) ==
    IF Truthy(body) /\ TLen(body) > max THEN TPrefix(body, max + 1) ELSE body

\* if body and len(body) > MAX_BODY_CHARS: body = body[:MAX_BODY_CHARS]
Truncate(body, max) ==
    IF Truthy(body) /\ TLen(body) > max THEN TPrefix(body, max) ELSE body

\* the body column as written: CsvRepo writes `body or ""`, Repo writes body
BodyColumn(b, body) ==
    IF b = "csv" /\ ~Truthy(body) THEN <<>> ELSE body

\* the canonical_url, body and hash_sha256 columns of the row insert_article
\* builds for (url, body); the hash is taken before the body is cut
ArticleColumns(b, u, body, max) ==
    LET canonical == canonicalize_url(u)
        hash_key  == sha256_hexd(content_key(canonical, body))
    IN  [canonical_url |-> canonical,
         body          |-> BodyColumn(b, Truncate(body, max)),
         hash_sha256   |-> hash_key]

(***************************************************************************)
(* Specification SpecHash: two calls of insert_article, each on an empty   *)
(* repository, under one configuration of MAX_BODY_CHARS                   *)
(***************************************************************************)
MaxBodyRuns == 2
LowBodyCap == 100

BodyLens == {1, HashPrefixLen - 1, CsvMaxBodyChars, DefaultMaxBodyChars}

Bodies == TextsUpTo({"a", "b"}, BodyLens, MaxBodyRuns) \cup {NoneText}

\* csv_rss_collector fixes MAX_BODY_CHARS; rss_collector reads it from the
\* environment
MaxBodyCharsOf(b) ==
    IF b = "csv" THEN {CsvMaxBodyChars}
    ELSE {LowBodyCap, CsvMaxBodyChars, DefaultMaxBodyChars}

HashUrls == {<<UrlA, UrlA>>, <<UrlA, UrlASlash>>, <<UrlA, UrlUpper>>}

InitHash ==
    /\ CanonIdle
    /\ PipelineOff
    /\ EntryOff /\ PollOff
    /\ backend \in Backends
    /\ articles = <<>>
    /\ calls = <<>>
    /\ wk = <<>>
    /\ hmax \in MaxBodyCharsOf(backend)
    /\ \E us \in HashUrls : \E b1 \in Bodies : \E b2 \in Bodies :
          hin = <<[url |-> us[1], body |-> b1], [url |-> us[2], body |-> b2]>>
    /\ hrow = <<>>
    /\ hpc = "input"

HashInsert ==
    /\ hpc = "input"
    /\ hrow' = [i \in 1..2 |-> ArticleColumns(backend, hin[i].url, hin[i].body, hmax)]
    /\ hpc' = "done"
    /\ UNCHANGED <<cvars, rvars, calls, wk, pvars, hmax, hin, evars, tvars>>

NextHash == HashInsert

SpecHash == InitHash /\ [][NextHash]_vars

\* a text-or-None as a text
AsText(t) == IF t = NoneText THEN <<>> ELSE t

\* s is a prefix of t
IsPrefix(s, t) == TLen(s) <= TLen(t) /\ s = TPrefix(t, TLen(s))

\* the first 200 characters of a body
First200(body) == TPrefix(AsText(body), HashPrefixLen)

\* C13: the stored hash is a function of exactly (canonical_url, body[0:200])
\* of the stored Article: two stored Articles with the same canonical_url
\* have the same hash if and only if the first 200 characters of their
\* stored bodies are the same, for every configured MAX_BODY_CHARS.
C13_HashOfStoredPrefix ==
    (hpc = "done" /\ hrow[1].canonical_url = hrow[2].canonical_url)
        => ((hrow[1].hash_sha256 = hrow[2].hash_sha256)
               <=> (First200(hrow[1].body) = First200(hrow[2].body)))

\* the same statement about the first 200 characters of the bodies handed to
\* insert_article, which is what the code hashes
HashOfInputPrefix ==
    (hpc = "done" /\ hrow[1].canonical_url = hrow[2].canonical_url)
        => ((hrow[1].hash_sha256 = hrow[2].hash_sha256)
               <=> (First200(hin[1].body) = First200(hin[2].body)))

\* the statement of C13 where MAX_BODY_CHARS is at least 200
HashOfStoredPrefixWideCap ==
    hmax >= HashPrefixLen => C13_HashOfStoredPrefix

ExtractThreshold == 200

\* the title every strategy reports for the page
PageTitle == <<Run("b", 1)>>

Found(t) == [out |-> "text", text |-> t]
Nothing == [out |-> "none", text |-> <<>>]
Raises == [out |-> "raise", text |-> <<>>]

\* t.strip()
RECURSIVE LStripSpace(_)
LStripSpace(t) ==
    IF t # <<>> /\ Head(t).k = "s" THEN LStripSpace(Tail(t)) ELSE t

RECURSIVE RStripSpace(_)
RStripSpace(t) ==
    IF t # <<>> /\ t[Len(t)].k = "s"
    THEN RStripSpace(SubSeq(t, 1, Len(t) - 1)) ELSE t

TStrip(t) == RStripSpace(LStripSpace(t))

\* re.sub(r"\s+", " ", t)
CollapseSpace(t) ==
    [i \in 1..Len(t) |-> IF t[i].k = "s" THEN Run("s", 1) ELSE t[i]]

\* re.sub(pattern, "", t) for the byline ("by") or email ("em") pattern
RemoveAll(t, kind) == Norm(SelectSeq(t, LAMBDA r : r.k # kind))

\* re.sub(r"무단 전재.*", "", t) on a text without line breaks
RECURSIVE CutBoilerplate(_)
CutBoilerplate(t) ==
    IF t = <<>> \/ Head(t).k = "mk" THEN <<>>
    ELSE <<Head(t)>> \o CutBoilerplate(Tail(t))

\* the whitespace pass the generic strategies apply
GenericCleanup(t) == TStrip(CollapseSpace(t))

\* the four passes of the outlet-specific strategy, in its order
OutletCleanup(t) ==
    CutBoilerplate(RemoveAll(RemoveAll(TStrip(CollapseSpace(t)), "by"), "em"))

NoBody == [title |-> NoneText, body |-> NoneText, winner |-> "none"]

Extracted(name, body) == [title |-> PageTitle, body |-> body, winner |-> name]

\* variant of CsvExtractBody whose generic strategies run all four passes
CsvExtractBodyAllPasses(page, max) ==
    IF page.yna.out = "text"
    THEN Extracted("yna", TPrefix(OutletCleanup(page.yna.text), max))
    ELSE IF page.trafilatura.out = "text" /\ Truthy(page.trafilatura.text)
    THEN Extracted("trafilatura", TPrefix(OutletCleanup(page.trafilatura.text), max))
    ELSE IF page.goose3.out = "text" /\ Truthy(page.goose3.text)
    THEN Extracted("goose3", TPrefix(OutletCleanup(page.goose3.text), max))
    ELSE NoBody

\* csv_rss_collector.extract_body
CsvExtractBody(page, max) ==
    IF page.yna.out = "text"
    THEN Extracted("yna", TPrefix(OutletCleanup(page.yna.text), max))
    ELSE IF page.trafilatura.out = "text" /\ Truthy(page.trafilatura.text)
    THEN Extracted("trafilatura", TPrefix(GenericCleanup(page.trafilatura.text), max))
    ELSE IF page.goose3.out = "text" /\ Truthy(page.goose3.text)
    THEN Extracted("goose3", TPrefix(GenericCleanup(page.goose3.text), max))
    ELSE NoBody

\* the test of rss_collector's strategies: text and len(text.strip()) > 200
LongEnough(t) == Truthy(t) /\ TLen(TStrip(t)) > ExtractThreshold

\* rss_collector.extract_body: no outlet-specific strategy
SqlExtractBody(page) ==
    IF page.trafilatura.out = "text" /\ LongEnough(page.trafilatura.text)
    THEN Extracted("trafilatura", GenericCleanup(page.trafilatura.text))
    ELSE IF page.goose3.out = "text" /\ LongEnough(page.goose3.text)
    THEN Extracted("goose3", GenericCleanup(page.goose3.text))
    ELSE NoBody

extract_body(b, page, max) ==
    IF b = "csv" THEN CsvExtractBody(page, max) ELSE SqlExtractBody(page)

(***************************************************************************)
(* One entry of a feed, from the page fetch on: extract_body, the fallback *)
(* to the entry's summary or title, insert_article and the log line        *)
(***************************************************************************)
\* variant of FallbackBody that prefers the title
FallbackBodyTitleFirst(body, summary, title) ==
    IF Truthy(body) THEN body
    ELSE IF Truthy(title) THEN title ELSE summary

\* if not body: body = summary or title
FallbackBody(body, summary, title) ==
    IF Truthy(body) THEN body
    ELSE IF Truthy(summary) THEN summary ELSE title

\* (e.get("title") or "").strip() and the same for the summary
Trimmed(e) == [summary |-> TStrip(e.summary), title |-> TStrip(e.title)]

\* the url of the entry being processed
EntryUrl == UrlA

ExtractPage ==
    /\ epc = "extract"
    /\ extracted' = extract_body(backend, strat, emax)
    /\ epc' = "insert"
    /\ UNCHANGED <<cvars, rvars, calls, wk, pvars, hvars, tvars,
                   strat, entry, emax, passed, erow, eret, elog>>

EntryInsert ==
    /\ epc = "insert"
    /\ LET e    == Trimmed(entry)
           body == FallbackBody(extracted.body, e.summary, e.title)
           res  == insert_article(backend, articles, 1, EntryUrl)
       IN  /\ passed' = body
           /\ articles' = res.store
           /\ calls' = Append(calls, [url |-> EntryUrl, ret |-> res.ret,
                                      before |-> articles, after |-> res.store])
           /\ eret' = res.ret
           /\ erow' = IF res.ret = None THEN <<>>
                      ELSE <<ArticleColumns(backend, EntryUrl, body, emax)>>
           /\ elog' = IF res.ret # None THEN "Saved article" ELSE "Duplicate skipped"
    /\ epc' = "done"
    /\ UNCHANGED <<cvars, backend, wk, pvars, hvars, tvars,
                   strat, entry, emax, extracted>>

NextEntry == ExtractPage \/ EntryInsert

\* the repository before the entry: empty, or holding the entry's url already
EntryStores == {<<>>, <<NewRow(1, 1, EntryUrl)>>}

InitEntryWith(pages, entries) ==
    /\ CanonIdle
    /\ PipelineOff
    /\ HashOff /\ PollOff
    /\ backend \in Backends
    /\ articles \in EntryStores
    /\ calls = <<>>
    /\ wk = <<>>
    /\ strat \in pages
    /\ entry \in entries
    /\ emax = IF backend = "csv" THEN CsvMaxBodyChars ELSE DefaultMaxBodyChars
    /\ extracted = <<>>
    /\ passed = <<>>
    /\ erow = <<>>
    /\ eret = None
    /\ elog = ""
    /\ epc = "extract"

(***************************************************************************)
(* Specification SpecExtract: one entry with a fixed summary and title,    *)
(* over pages whose strategies find a text of up to MaxPageRuns runs       *)
(***************************************************************************)
MaxPageRuns == 3

PageTexts == TextsUpTo({"a", "s", "by", "em", "mk"}, {1, ExtractThreshold}, MaxPageRuns)

\* a text every strategy accepts and leaves as it is
LongText == <<Run("a", ExtractThreshold), Run("s", 1), Run("a", 1)>>

\* each strategy raises, finds nothing, finds the page's text or finds LongText
Outcomes(t) == {Raises, Nothing, Found(t), Found(LongText)}

Pages(texts) ==
    UNION {[yna : Outcomes(t), trafilatura : Outcomes(t), goose3 : Outcomes(t)] :
           t \in texts}

PlainEntry == [summary |-> <<Run("a", 1)>>, title |-> <<Run("b", 1)>>]

InitExtract == InitEntryWith(Pages(PageTexts), {PlainEntry})

SpecExtract == InitExtract /\ [][NextEntry]_vars

\* the strategies in the order extract_body tries them
Chain(b) == IF b = "csv" THEN <<"yna", "trafilatura", "goose3">>
            ELSE <<"trafilatura", "goose3">>

\* the minimum length the spec gives each chain
Threshold(b) == IF b = "csv" THEN 0 ELSE ExtractThreshold

\* the body a strategy produces from the text it found
StrategyBody(b, name) ==
    IF b = "csv"
    THEN TPrefix(IF name = "yna" THEN OutletCleanup(strat[name].text)
                 ELSE GenericCleanup(strat[name].text), emax)
    ELSE GenericCleanup(strat[name].text)

\* a strategy found a body that is non-empty and longer than the threshold
Qualifies(b, name) ==
    /\ strat[name].out = "text"
    /\ TLen(StrategyBody(b, name)) > Threshold(b)

\* C11: extract_body returns the result of the first strategy, in the fixed
\* order, whose body is non-empty and longer than the chain's threshold (0
\* for csv_rss_collector, 200 for rss_collector), returns (None, None) when
\* no strategy has one, and so never returns a body at or below the threshold.
C11_FirstQualifyingStrategy ==
    epc # "extract" =>
        LET chain == Chain(backend)
            q     == {i \in 1..Len(chain) : Qualifies(backend, chain[i])}
        IN  IF q = {} THEN extracted = NoBody
            ELSE /\ extracted.winner = chain[MinOf(q)]
                 /\ extracted.body = StrategyBody(backend, extracted.winner)
                 /\ TLen(extracted.body) > Threshold(backend)

\* what holds of both chains: the winner is the first strategy, in order,
\* that the code's own test accepts, and all strategies failing gives
\* (None, None)
Accepted(b, name) ==
    /\ strat[name].out = "text"
    /\ IF b = "csv" THEN (name = "yna" \/ Truthy(strat[name].text))
       ELSE LongEnough(strat[name].text)

FirstAcceptedStrategy ==
    epc # "extract" =>
        LET chain == Chain(backend)
            q     == {i \in 1..Len(chain) : Accepted(backend, chain[i])}
        IN  IF q = {} THEN extracted = NoBody
            ELSE /\ extracted.winner = chain[MinOf(q)]
                 /\ extracted.body = StrategyBody(backend, extracted.winner)

\* C17: whichever strategy produced the returned body, the body has had all
\* four cleanup passes applied (whitespace collapse, byline removal, email
\* removal, trailing boilerplate removal).
C17_AllPassesWhicheverStrategy ==
    (epc # "extract" /\ extracted.winner # "none") =>
        LET cleaned == OutletCleanup(strat[extracted.winner].text)
        IN  extracted.body = IF backend = "csv" THEN TPrefix(cleaned, emax)
                             ELSE cleaned

\* what holds: every returned body has had the whitespace pass applied
WhitespacePassWhicheverStrategy ==
    (epc # "extract" /\ extracted.winner \in {"trafilatura", "goose3"}) =>
        LET cleaned == GenericCleanup(strat[extracted.winner].text)
        IN  extracted.body = IF backend = "csv" THEN TPrefix(cleaned, emax)
                             ELSE cleaned


(***************************************************************************)
(* Specification SpecEntry: one entry over every summary and title of up   *)
(* to MaxEntryRuns runs and pages whose strategies find plain texts        *)
(***************************************************************************)
MaxEntryRuns == 1

EntryPageTexts == TextsUpTo({"a", "s"}, {1, ExtractThreshold}, MaxEntryRuns)

EntryPages ==
    LET outcomes == {Raises, Nothing} \cup {Found(t) : t \in EntryPageTexts}
    IN  [yna : outcomes, trafilatura : outcomes, goose3 : outcomes]

\* raw summaries and titles of a feed entry (a missing one is read as "")
Entries ==
    [summary : TextsUpTo({"a", "s"}, {1}, MaxEntryRuns),
     title   : TextsUpTo({"b", "s"}, {1}, MaxEntryRuns)]

InitEntry == InitEntryWith(EntryPages, Entries)

SpecEntry == InitEntry /\ [][NextEntry]_vars

\* the extraction chain yielded a body
ChainYieldedBody == Truthy(extracted.body)

\* the repository held no Article with the entry's canonical_url before
EntryIsNew == RowsFor(calls[1].before, canonicalize_url(EntryUrl)) = {}

\* C12: when the extraction chain yields no body, the body handed to
\* insert_article is the entry's (trimmed) summary if that is non-empty and
\* the entry's (trimmed) title otherwise; a persisted body is empty only when
\* the chain failed and summary and title are both empty, and then the
\* Article is still created, with an empty body.
C12_FallbackSummaryThenTitle ==
    epc = "done" =>
        LET e == Trimmed(entry)
        IN  /\ ~ChainYieldedBody =>
                  passed = IF e.summary # <<>> THEN e.summary ELSE e.title
            /\ ChainYieldedBody => passed = extracted.body
            /\ (erow # <<>> /\ AsText(erow[1].body) = <<>>) =>
                  (~ChainYieldedBody /\ e.summary = <<>> /\ e.title = <<>>)
            /\ EntryIsNew =>
                  /\ eret # None
                  /\ erow # <<>>
                  /\ AsText(erow[1].body) = AsText(Truncate(passed, emax))
                  /\ RowsFor(articles, canonicalize_url(EntryUrl)) # {}

\* the chain failed on an entry whose summary is blank and whose title is
\* not: the title was stored as the body
C12_Witness ==
    /\ epc = "done"
    /\ ~ChainYieldedBody
    /\ entry.summary # <<>>
    /\ TStrip(entry.summary) = <<>>
    /\ TStrip(entry.title) # <<>>
    /\ erow # <<>>
    /\ erow[1].body = TStrip(entry.title)

\* the chain failed on an entry without summary and title: the Article was
\* created with an empty body
C12_EmptyBodyStored ==
    /\ epc = "done"
    /\ ~ChainYieldedBody
    /\ entry.summary = <<>>
    /\ entry.title = <<>>
    /\ eret # None
    /\ erow # <<>>
    /\ AsText(erow[1].body) = <<>>


(***************************************************************************)
(* Specification SpecValues: calls of insert_article that also give the    *)
(* outlet, a NOT NULL column of the articles table, and may find the       *)
(* database unreachable                                                    *)
(***************************************************************************)
\* Python's None where an outlet is expected; equal to no outlet name
OutletNone == <<"None">>

Outlets == {<<"y">>, OutletNone}

\* nullable=False on articles.outlet: the INSERT raises IntegrityError
NotNullViolation(o) == o = OutletNone

\* variant of IntegrityError that the uniqueness constraint alone raises
IntegrityErrorUniqueOnly(table, o, canonical) == UniqueViolation(table, canonical)

\* the INSERT of Repo.insert_article raises sqlalchemy.exc.IntegrityError
IntegrityError(table, o, canonical) ==
    NotNullViolation(o) \/ UniqueViolation(table, canonical)

\* Repo.insert_article with its outlet argument: `except IntegrityError`
\* returns None whichever constraint failed; any other exception (down: the
\* database cannot be reached) leaves the call
SqlInsertValues(table, feed_id, o, u, down) ==
    IF down THEN [ret |-> None, store |-> table, error |-> TRUE]
    ELSE IF IntegrityError(table, o, canonicalize_url(u))
    THEN [ret |-> None, store |-> table, error |-> FALSE]
    ELSE [ret |-> SqlInsertArticle(table, feed_id, u).ret,
          store |-> SqlInsertArticle(table, feed_id, u).store,
          error |-> FALSE]

\* CsvRepo.insert_article with its outlet argument: the file has no
\* constraint, a None outlet is written as an empty field; down: the file
\* cannot be read
CsvInsertValues(file, feed_id, o, u, down) ==
    IF down THEN [ret |-> None, store |-> file, error |-> TRUE]
    ELSE [ret |-> CsvInsertArticle(file, feed_id, u).ret,
          store |-> CsvInsertArticle(file, feed_id, u).store,
          error |-> FALSE]

insert_values(b, store, feed_id, o, u, down) ==
    IF b = "csv" THEN CsvInsertValues(store, feed_id, o, u, down)
                 ELSE SqlInsertValues(store, feed_id, o, u, down)

\* what fetch_and_process_feed logs for a returned article_id
LogLine(ret) == IF ret # None THEN "Saved article" ELSE "Duplicate skipped"

InsertValuesCall(feed_id, o, u, down) ==
    /\ Len(calls) < MaxCalls
    /\ LET r == insert_values(backend, articles, feed_id, o, u, down)
       IN  /\ articles' = r.store
           /\ calls' = Append(calls,
                  [url |-> u, outlet |-> o, ret |-> r.ret, error |-> r.error,
                   logged |-> IF r.error THEN "" ELSE LogLine(r.ret),
                   before |-> articles, after |-> r.store])
    /\ UNCHANGED <<cvars, backend, wk, pvars, nvars>>

NextValues ==
    \E o \in Outlets, u \in PlainUrls, down \in BOOLEAN :
        InsertValuesCall(1, o, u, down)

SpecValues == InitInsert /\ [][NextValues]_vars

\* an Article with the canonical_url of call k was in the store before it
WasDuplicate(k) ==
    RowsFor(calls[k].before, canonicalize_url(calls[k].url)) # {}

\* C18: insert_article returns the duplicate signal (None) only when an
\* Article with the same canonical_url is already stored; a write rejected
\* for another reason (a missing outlet) reaches the caller as an error and
\* is neither returned nor logged as a duplicate.
C18_NoneOnlyForDuplicate ==
    \A k \in 1..Len(calls) :
        /\ (calls[k].ret = None /\ ~calls[k].error) => WasDuplicate(k)
        /\ calls[k].logged = "Duplicate skipped" => WasDuplicate(k)
        /\ (calls[k].after = calls[k].before /\ ~WasDuplicate(k)) => calls[k].error

\* what holds: None without an error means a constraint of the table failed
\* (SQL) or the canonical_url was found in the file (CSV)
NoneOnlyForConstraint ==
    \A k \in 1..Len(calls) :
        (calls[k].ret = None /\ ~calls[k].error) =>
            \/ WasDuplicate(k)
            \/ backend = "sql" /\ calls[k].outlet = OutletNone


(***************************************************************************)
(* Specification SpecPoll: one run of run_once with a clock.  The clock    *)
(* counts ticks of 1/TicksPerSecond seconds and advances between any two   *)
(* steps by as much as the network takes; the pipeline itself never waits  *)
(* (neither collector sleeps or reads MIN_HOST_INTERVAL).  Feeds 1 and 2   *)
(* are active, feed 3 is not.                                              *)
(***************************************************************************)
MinHostIntervalSeconds == 1
TicksPerSecond == 2
MaxTime == 4
MaxPollEntries == 2

MIN_HOST_INTERVAL == MinHostIntervalSeconds * TicksPerSecond

Hosts == {"h1", "h2"}
PollFeedIds == {1, 2, 3}

\* the Feed row upsert_feed creates; last_checked 0 is the value before any
\* poll (NULL in the feeds table, the registration time in feeds.csv)
FeedRow(f, host) ==
    [outlet |-> f, url |-> host, active |-> f # 3,
     etag |-> "None", last_modified |-> "None", last_checked |-> 0]

\* select(feeds_table).where(active == True), in id order
ActiveFeeds(table) ==
    SelectSeq(<<1, 2, 3>>, LAMBDA f : table[f].active)

HostSeqs == UNION {[1..n -> Hosts] : n \in 0..MaxPollEntries}

InitPoll ==
    /\ CanonIdle
    /\ PipelineOff
    /\ HashOff /\ EntryOff
    /\ backend \in Backends
    /\ articles = <<>>
    /\ calls = <<>>
    /\ wk = <<>>
    /\ \E polled \in [{1, 2} -> [host : Hosts, entries : HostSeqs]] :
          site = [f \in PollFeedIds |->
                     IF f = 3 THEN [host |-> "h1", entries |-> <<>>] ELSE polled[f]]
    /\ feedsTable = [f \in PollFeedIds |-> FeedRow(f, site[f].host)]
    /\ now = 1
    /\ tpc = "idle"
    /\ tfi = 0
    /\ tleft = <<>>
    /\ reqs = <<>>
    /\ polls = <<>>

\* time passes
Tick ==
    /\ now < MaxTime
    /\ tpc # "done"
    /\ now' = now + 1
    /\ UNCHANGED <<cvars, rvars, calls, wk, pvars, hvars, evars,
                   tpc, tfi, tleft, reqs, feedsTable, polls, site>>

\* run_once: rows = repo.list_active_feeds()
StartPoll ==
    /\ tpc = "idle"
    /\ tpc' = "poll"
    /\ tfi' = 1
    /\ UNCHANGED <<cvars, rvars, calls, wk, pvars, hvars, evars,
                   now, tleft, reqs, feedsTable, polls, site>>

\* the feed now being processed
PollFeedId == ActiveFeeds(feedsTable)[tfi]

\* client.get(feed_url) and what follows from its outcome: a 200 leads to
\* the entries, a non-200 returns, an exception is caught by run_once
PollFeed(result) ==
    /\ tpc = "poll"
    /\ tfi <= Len(ActiveFeeds(feedsTable))
    /\ reqs' = Append(reqs, [host |-> site[PollFeedId].host, at |-> now])
    /\ polls' = Append(polls, [feed |-> PollFeedId, at |-> now, result |-> result])
    /\ IF result = "ok"
       THEN /\ tpc' = "entries"
            /\ tleft' = site[PollFeedId].entries
            /\ UNCHANGED tfi
       ELSE /\ tfi' = tfi + 1
            /\ UNCHANGED <<tpc, tleft>>
    /\ UNCHANGED <<cvars, rvars, calls, wk, pvars, hvars, evars,
                   now, feedsTable, site>>

\* client.get(link) for the next entry of the feed
PageRequest ==
    /\ tpc = "entries"
    /\ tleft # <<>>
    /\ reqs' = Append(reqs, [host |-> Head(tleft), at |-> now])
    /\ tleft' = Tail(tleft)
    /\ UNCHANGED <<cvars, rvars, calls, wk, pvars, hvars, evars,
                   now, tpc, tfi, feedsTable, polls, site>>

\* the loop over the entries ends: fetch_and_process_feed returns
EntriesDone ==
    /\ tpc = "entries"
    /\ tleft = <<>>
    /\ tpc' = "poll"
    /\ tfi' = tfi + 1
    /\ UNCHANGED <<cvars, rvars, calls, wk, pvars, hvars, evars,
                   now, tleft, reqs, feedsTable, polls, site>>

\* the loop over the feeds ends: run_once returns
PollDone ==
    /\ tpc = "poll"
    /\ tfi > Len(ActiveFeeds(feedsTable))
    /\ tpc' = "done"
    /\ UNCHANGED <<cvars, rvars, calls, wk, pvars, hvars, evars,
                   now, tfi, tleft, reqs, feedsTable, polls, site>>

NextPoll ==
    \/ Tick
    \/ StartPoll
    \/ \E result \in {"ok", "non200", "raise"} : PollFeed(result)
    \/ PageRequest
    \/ EntriesDone
    \/ PollDone

SpecPoll == InitPoll /\ [][NextPoll]_vars

\* requests i < j go to the same host with no request to it in between
ConsecutiveToHost(i, j) ==
    /\ i < j
    /\ reqs[i].host = reqs[j].host
    /\ \A k \in (i + 1)..(j - 1) : reqs[k].host # reqs[i].host

\* C15: any two consecutive HTTP requests of a run to the same host, feed
\* polls and page fetches alike, are at least MIN_HOST_INTERVAL apart.
C15_MinHostIntervalKept ==
    \A i, j \in 1..Len(reqs) :
        ConsecutiveToHost(i, j) => reqs[j].at - reqs[i].at >= MIN_HOST_INTERVAL

\* C16: every poll attempt of a feed, successful or not, has updated the
\* Feed's last_checked by the time the run is over, and the run changes no
\* Feed field other than etag, last_modified and last_checked.
C16_PollUpdatesLastChecked ==
    /\ tpc = "done" =>
          \A k \in 1..Len(polls) :
              feedsTable[polls[k].feed].last_checked >= polls[k].at
    /\ \A f \in PollFeedIds :
          /\ feedsTable[f].outlet = f
          /\ feedsTable[f].url = site[f].host
          /\ feedsTable[f].active = (f # 3)

\* what holds: the run changes no field of any Feed
FeedsUntouched ==
    \A f \in PollFeedIds : feedsTable[f] = FeedRow(f, site[f].host)

=============================================================================
